---- MODULE Spec2Model ----
(***************************************************************************)
(* Product CRUD service: the products table (store/models/product.py),     *)
(* the ProductUsecase operations on it (store/usecases/product.py) and the *)
(* HTTP handlers that call them (store/controllers/product.py).            *)
(*                                                                         *)
(* Every request owns one AsyncSession.  A usecase method is cut at its    *)
(* awaits on the database: the SELECT of session.get, the flush + COMMIT   *)
(* of session.commit, the SELECT of session.refresh.  Statements of        *)
(* different requests interleave freely between those points; a single     *)
(* statement is atomic and sees every committed row (READ COMMITTED).      *)
(***************************************************************************)
EXTENDS Integers, Sequences, FiniteSets, TLC

\* ---------------------------------------------------------------- bounds
MaxIds == 2          \* uuid4 values drawn during a run
MaxClock == 1        \* last value datetime.utcnow reaches
NumSessions == 2     \* requests in flight at once
MaxRequests == 3     \* requests received during a run

Ids == 1..MaxIds
Sessions == 1..NumSessions

VARIABLES store, clock, nextId, session, response, requests
vars == <<store, clock, nextId, session, response, requests>>

\* ---------------------------------------------------------------- inputs
\* ProductIn: name (text is a sequence of characters), quantity, price (in
\* cents, Numeric(10, 2)), status.
ProductIn ==
    {[name |-> <<"a", "a">>, quantity |-> 10, price |-> 999, status |-> TRUE],
     [name |-> <<"A", "b">>, quantity |-> 0, price |-> 0, status |-> FALSE]}

\* ProductUpdate after body.dict(exclude_unset=True): the fields the caller
\* set, and nothing else.
NoFields == [k \in {} |-> 0]
ProductUpdate ==
    {NoFields,
     [k \in {"quantity"} |-> 3],
     [k \in {"name"} |-> <<"A", "b">>],
     [k \in {"name", "quantity"} |-> IF k = "name" THEN <<"a", "a">> ELSE 3]}

\* Optional[str]: {} is None, {s} is the string s.
None == {}
Filters ==
    {[name |-> n, category |-> None] :
        n \in {None, {<< >>}, {<<"A">>}, {<<"B">>}, {<<"a", "A">>}, {<<"_">>}}}
    \cup {[name |-> n, category |-> c] :
        n \in {None, {<<"A">>}}, c \in {{<< >>}, {<<"x">>}}}

\* ---------------------------------------------------------------- entity
\* A row of table products.  NoProduct is the None that session.get returns.
NoProduct ==
    [id |-> 0, name |-> << >>, quantity |-> 0, price |-> 0, status |-> FALSE,
     created_at |-> 0, updated_at |-> 0]

\* datetime.utcnow() read when the clock last showed t: the same instant or a
\* later one (a clock that is never set back).
utcnow(t) == {u \in {t, t + 1} : u <= MaxClock}

\* The rows of table products, and the one with primary key id.
StoredIds == {p.id : p \in store}
Row(id) == CHOOSE p \in store : p.id = id

\* A generator that hands out the id of a deleted product again.
uuid4_reused == CHOOSE i \in Ids : i \notin StoredIds

\* uuid.uuid4(): a value no earlier call returned.  Those given to a product
\* so far are 1 .. nextId - 1.
uuid4 == nextId

\* A Product whose two timestamp defaults are taken in the other order.
Product_swapped(body, id, created, updated) ==
    [id |-> id, name |-> body.name, quantity |-> body.quantity,
     price |-> body.price, status |-> body.status,
     created_at |-> updated, updated_at |-> created]

\* Product(**body.dict()) with the column defaults filled in by the INSERT.
Product(body, id, created, updated) ==
    [id |-> id, name |-> body.name, quantity |-> body.quantity,
     price |-> body.price, status |-> body.status,
     created_at |-> created, updated_at |-> updated]

\* A table without constraints, and one whose name column is not unique.
UniqueViolation_none(rows, product) == FALSE
UniqueViolation_pk_only(rows, product) == \E p \in rows : p.id = product.id

\* id = Column(..., primary_key=True), name = Column(..., unique=True): the
\* constraints a row must meet against the other rows of the table.
UniqueViolation(rows, product) ==
    \E p \in rows : p.id = product.id \/ p.name = product.name

\* ---------------------------------------------------------------- sessions
Idle ==
    [pc |-> "idle", op |-> "none", id |-> 0, body |-> NoFields,
     loaded |-> NoProduct, product |-> NoProduct]

\* The response sent last: the handler, the usecase's outcome, the status code
\* and the records of the body.
NoResponse ==
    [op |-> "none", outcome |-> "none", status |-> 0, body |-> {}]

\* A request arrives: Depends() hands its handler a session of its own, here
\* the first one no request in flight holds.
Receive(r) ==
    /\ session[r].pc = "idle"
    /\ \A q \in Sessions : q < r => session[q].pc # "idle"
    /\ requests < MaxRequests
    /\ requests' = requests + 1

Init ==
    /\ store = {}
    /\ clock = 0
    /\ nextId = 1
    /\ session = [r \in Sessions |-> Idle]
    /\ response = NoResponse
    /\ requests = 0

\* ---------------------------------------------------------------- controllers
\* What each handler turns the usecase's outcome into: its status_code on a
\* return, the HTTPException of the except clause that catches the error, and
\* the framework's 500 for an exception no clause catches.
post_status(outcome) ==
    IF outcome = "ok" THEN 201
    ELSE IF outcome = "IntegrityError" THEN 400 ELSE 500

get_status(outcome) ==
    IF outcome = "ok" THEN 200
    ELSE IF outcome = "NotFoundException" THEN 404 ELSE 500

query_status(outcome) ==
    IF outcome = "ok" THEN 200 ELSE 500

patch_status(outcome) ==
    IF outcome = "ok" THEN 200
    ELSE IF outcome = "NotFoundException" THEN 404
    ELSE IF outcome = "IntegrityError" THEN 400 ELSE 500

\* A delete handler declared with status_code 200.
delete_status_200(outcome) ==
    IF outcome = "ok" THEN 200
    ELSE IF outcome = "NotFoundException" THEN 404 ELSE 500

delete_status(outcome) ==
    IF outcome = "ok" THEN 204
    ELSE IF outcome = "NotFoundException" THEN 404 ELSE 500

\* The response of handler op to a usecase call that ended with outcome and
\* returned the records in body.
Respond(op, outcome, body) ==
    [op |-> op, outcome |-> outcome,
     status |-> CASE op = "post" -> post_status(outcome)
                  [] op = "get" -> get_status(outcome)
                  [] op = "query" -> query_status(outcome)
                  [] op = "patch" -> patch_status(outcome)
                  [] op = "delete" -> delete_status(outcome),
     body |-> IF outcome = "ok" /\ op # "delete" THEN body ELSE {}]

Finish(r, op, outcome, body) ==
    /\ session' = [session EXCEPT ![r] = Idle]
    /\ response' = Respond(op, outcome, body)

\* ---------------------------------------------------------------- usecase
\* create: session.add(product); session.commit().  The INSERT fills id,
\* created_at and updated_at from their column defaults, one call each, in
\* column order.  IntegrityError: rollback and re-raise.
create(r, body) ==
    /\ Receive(r)
    /\ nextId <= MaxIds
    /\ \E created \in utcnow(clock) : \E updated \in utcnow(created) :
         LET product == Product(body, uuid4, created, updated) IN
         /\ clock' = updated
         /\ IF UniqueViolation(store, product)
            THEN /\ Finish(r, "post", "IntegrityError", {})
                 /\ UNCHANGED <<store, nextId>>
            ELSE /\ store' = store \cup {product}
                 /\ nextId' = nextId + 1
                 /\ session' = [session EXCEPT ![r] =
                        [Idle EXCEPT !.pc = "committed", !.op = "post",
                                     !.id = product.id, !.product = product]]
                 /\ UNCHANGED response

\* session.refresh(product) after a commit, then from_orm: the row as it is
\* now.  A row that is gone raises InvalidRequestError, which nothing catches.
refresh(r) ==
    /\ UNCHANGED requests
    /\ session[r].pc = "committed"
    /\ IF session[r].id \in StoredIds
       THEN Finish(r, session[r].op, "ok", {Row(session[r].id)})
       ELSE Finish(r, session[r].op, "InvalidRequestError", {})
    /\ UNCHANGED <<store, clock, nextId>>

\* get: session.get(Product, id), NotFoundException when there is no row.
get(r, id) ==
    /\ Receive(r)
    /\ IF id \in StoredIds
       THEN Finish(r, "get", "ok", {Row(id)})
       ELSE Finish(r, "get", "NotFoundException", {})
    /\ UNCHANGED <<store, clock, nextId>>

\* Case folding of ILIKE on the characters in use.
lower(c) == IF c = "A" THEN "a" ELSE IF c = "B" THEN "b" ELSE c

\* s LIKE p ignoring case: % matches any run of characters, _ any one.
RECURSIVE ilike(_, _)
ilike(s, p) ==
    IF p = << >> THEN s = << >>
    ELSE IF Head(p) = "%"
         THEN ilike(s, Tail(p)) \/ (s # << >> /\ ilike(Tail(s), p))
         ELSE /\ s # << >>
              /\ Head(p) = "_" \/ lower(Head(p)) = lower(Head(s))
              /\ ilike(Tail(s), Tail(p))

\* "if name:" / "if category:": None and the empty string add no WHERE.
Truthy(opt) == opt # None /\ opt # {<< >>}

\* The rows select(Product).where(Product.name.ilike(f"%{name}%")) returns.
Select(rows, name) ==
    {p \in rows :
        Truthy(name) => \A n \in name : ilike(p.name, <<"%">> \o n \o <<"%">>)}

\* query: Product has no attribute category, so building the second WHERE
\* raises AttributeError before any statement is sent.
query(r, name, category) ==
    /\ Receive(r)
    /\ IF Truthy(category)
       THEN Finish(r, "query", "AttributeError", {})
       ELSE Finish(r, "query", "ok", Select(store, name))
    /\ UNCHANGED <<store, clock, nextId>>

\* The setattr loop followed by product.updated_at = product.created_at.
setattrs_created(product, body, now) ==
    [id |-> product.id,
     name |-> IF "name" \in DOMAIN body THEN body["name"] ELSE product.name,
     quantity |-> IF "quantity" \in DOMAIN body THEN body["quantity"]
                  ELSE product.quantity,
     price |-> IF "price" \in DOMAIN body THEN body["price"] ELSE product.price,
     status |-> IF "status" \in DOMAIN body THEN body["status"] ELSE product.status,
     created_at |-> product.created_at,
     updated_at |-> product.created_at]

\* for key, value in body.dict(exclude_unset=True).items(): setattr(...), then
\* product.updated_at = now.
setattrs(product, body, now) ==
    [id |-> product.id,
     name |-> IF "name" \in DOMAIN body THEN body["name"] ELSE product.name,
     quantity |-> IF "quantity" \in DOMAIN body THEN body["quantity"]
                  ELSE product.quantity,
     price |-> IF "price" \in DOMAIN body THEN body["price"] ELSE product.price,
     status |-> IF "status" \in DOMAIN body THEN body["status"] ELSE product.status,
     created_at |-> product.created_at,
     updated_at |-> now]

\* update, up to its commit: session.get (NotFoundException when there is no
\* row), the setattr loop and the clock read of line 64.  The session keeps
\* the row as loaded beside the object the handler changed.
update(r, id, body) ==
    /\ Receive(r)
    /\ IF id \notin StoredIds
       THEN /\ Finish(r, "patch", "NotFoundException", {})
            /\ UNCHANGED clock
       ELSE \E now \in utcnow(clock) :
            /\ clock' = now
            /\ session' = [session EXCEPT ![r] =
                   [pc |-> "loaded", op |-> "patch", id |-> id, body |-> body,
                    loaded |-> Row(id),
                    product |-> setattrs(Row(id), body, now)]]
            /\ UNCHANGED response
    /\ UNCHANGED <<store, nextId>>

Columns == {"name", "quantity", "price", "status", "updated_at"}

\* The columns the flush puts in UPDATE ... SET: the attributes whose value
\* differs from the loaded one.  Assigning an attribute the value it was
\* loaded with is no change.
Dirty(loaded, product) == {k \in Columns : product[k] # loaded[k]}

\* The row after UPDATE products SET <cols> WHERE id = :id.  updated_at has
\* onupdate=datetime.utcnow, used when the SET does not name the column.
Updated(row, product, cols, now) ==
    [id |-> row.id,
     name |-> IF "name" \in cols THEN product.name ELSE row.name,
     quantity |-> IF "quantity" \in cols THEN product.quantity ELSE row.quantity,
     price |-> IF "price" \in cols THEN product.price ELSE row.price,
     status |-> IF "status" \in cols THEN product.status ELSE row.status,
     created_at |-> row.created_at,
     updated_at |-> IF "updated_at" \in cols THEN product.updated_at ELSE now]

\* update, its session.commit(): nothing dirty sends no UPDATE; an UPDATE that
\* matches no row raises StaleDataError (uncaught); a duplicate name raises
\* IntegrityError (rollback, re-raise); otherwise the row is written.
update_commit(r) ==
    /\ UNCHANGED requests
    /\ session[r].pc = "loaded"
    /\ session[r].op = "patch"
    /\ LET id == session[r].id
           cols == Dirty(session[r].loaded, session[r].product) IN
       IF cols = {}
       THEN /\ session' = [session EXCEPT ![r].pc = "committed"]
            /\ UNCHANGED <<store, clock, response>>
       ELSE IF id \notin StoredIds
       THEN /\ Finish(r, "patch", "StaleDataError", {})
            /\ UNCHANGED <<store, clock>>
       ELSE IF "name" \in cols
               /\ UniqueViolation({p \in store : p.id # id}, session[r].product)
       THEN /\ Finish(r, "patch", "IntegrityError", {})
            /\ UNCHANGED <<store, clock>>
       ELSE \E now \in IF "updated_at" \in cols THEN {clock} ELSE utcnow(clock) :
            /\ store' = {IF p.id = id
                          THEN Updated(p, session[r].product, cols, now)
                          ELSE p : p \in store}
            /\ clock' = now
            /\ session' = [session EXCEPT ![r].pc = "committed"]
            /\ UNCHANGED response
    /\ UNCHANGED nextId

\* A delete that does not look at what session.get returned.
delete_unchecked(r, id) ==
    /\ Receive(r)
    /\ session' = [session EXCEPT ![r] =
           [Idle EXCEPT !.pc = "loaded", !.op = "delete", !.id = id]]
    /\ UNCHANGED <<store, clock, nextId, response>>

\* delete, up to its commit: session.get, NotFoundException when there is no
\* row.
delete(r, id) ==
    /\ Receive(r)
    /\ IF id \notin StoredIds
       THEN Finish(r, "delete", "NotFoundException", {})
       ELSE /\ session' = [session EXCEPT ![r] =
                   [Idle EXCEPT !.pc = "loaded", !.op = "delete", !.id = id]]
            /\ UNCHANGED response
    /\ UNCHANGED <<store, clock, nextId>>

\* delete, its session.delete + session.commit(): DELETE ... WHERE id = :id.
\* A DELETE that matches no row only warns.
delete_commit(r) ==
    /\ UNCHANGED requests
    /\ session[r].pc = "loaded"
    /\ session[r].op = "delete"
    /\ store' = {p \in store : p.id # session[r].id}
    /\ Finish(r, "delete", "ok", {})
    /\ UNCHANGED <<clock, nextId>>

\* ---------------------------------------------------------------- system
Next ==
    \E r \in Sessions :
        \/ \E body \in ProductIn : create(r, body)
        \/ refresh(r)
        \/ \E id \in Ids : get(r, id)
        \/ \E f \in Filters : query(r, f.name, f.category)
        \/ \E id \in Ids, body \in ProductUpdate : update(r, id, body)
        \/ update_commit(r)
        \/ \E id \in Ids : delete(r, id)
        \/ delete_commit(r)

Spec == Init /\ [][Next]_vars

\* ---------------------------------------------------------------- properties
NameUsed(rows, name) == \E p \in rows : p.name = name

\* The stored product a session works on, as the table holds it now.
Target(r) == Row(session[r].id)

\* The record create(body) has to store: the input's fields under id.
IsInput(p, body) ==
    /\ p.name = body.name
    /\ p.quantity = body.quantity
    /\ p.price = body.price
    /\ p.status = body.status

\* C1, as stated: a create with a valid input and an unused name succeeds,
\* the store afterwards is the previous products plus one with a generated
\* non-empty id, created_at = updated_at and the input's fields, and that is
\* the record returned with 201.
C1_CreateEqualTimestamps ==
    [][/\ \A r \in Sessions, body \in ProductIn :
            create(r, body) /\ ~NameUsed(store, body.name) =>
                \E p \in store' \ store :
                    /\ store' = store \cup {p}
                    /\ p.id # NoProduct.id /\ p.id \notin StoredIds
                    /\ IsInput(p, body)
                    /\ p.created_at = p.updated_at
                    /\ session'[r].pc = "committed"
                    /\ session'[r].product = p
       /\ \A r \in Sessions :
            refresh(r) /\ session[r].op = "post" =>
                response' = [op |-> "post", outcome |-> "ok", status |-> 201,
                             body |-> {session[r].product}]]_vars

\* C1, amended: a create with a valid input and an unused name commits; the
\* store afterwards is the previous products plus one with a generated
\* non-empty id, the input's fields and created_at <= updated_at (two clock
\* reads); the record returned with 201 is that row as refresh re-reads it,
\* the inserted one whenever it is still stored unchanged.
C1_CreateStoresInput ==
    [][/\ \A r \in Sessions, body \in ProductIn :
            create(r, body) /\ ~NameUsed(store, body.name) =>
                \E p \in store' \ store :
                    /\ store' = store \cup {p}
                    /\ p.id # NoProduct.id /\ p.id \notin StoredIds
                    /\ IsInput(p, body)
                    /\ p.created_at <= p.updated_at
                    /\ session'[r].pc = "committed"
                    /\ session'[r].product = p
       /\ \A r \in Sessions :
            refresh(r) /\ session[r].op = "post" /\ session[r].product \in store =>
                response' = [op |-> "post", outcome |-> "ok", status |-> 201,
                             body |-> {session[r].product}]]_vars

\* A create was answered 201 with a record, still stored, whose updated_at is
\* later than its created_at.
C1_Witness ==
    /\ response.op = "post" /\ response.status = 201
    /\ \E p \in response.body : p \in store /\ p.created_at < p.updated_at

C3_UniqueNameAndId ==
    \A p \in store, q \in store : p # q => p.id # q.id /\ p.name # q.name

\* Two products are stored and an update in flight is about to rename one to
\* the other's name.
C3_Witness ==
    /\ Cardinality(store) = 2
    /\ \E r \in Sessions :
        /\ session[r].pc = "loaded" /\ session[r].op = "patch"
        /\ session[r].product.name # session[r].loaded.name
        /\ \E p \in store : p.id # session[r].id /\ p.name = session[r].product.name

\* The fields a caller can set.
Fields == {"name", "quantity", "price", "status"}

\* update_commit(r) went through for a product that is stored.
Committed(r) ==
    /\ update_commit(r)
    /\ session[r].id \in StoredIds
    /\ session'[r].pc = "committed"

\* C4, as stated: a successful update sets exactly the fields of its body to
\* the supplied values, besides updated_at; the fields it omits, id and
\* created_at keep their stored values and every other product is unchanged.
C4_UpdateSetsSuppliedFields ==
    [][\A r \in Sessions :
        Committed(r) =>
            \E new \in store' :
                /\ new.id = session[r].id
                /\ \A k \in DOMAIN session[r].body : new[k] = session[r].body[k]
                /\ \A k \in Fields \ DOMAIN session[r].body : new[k] = Target(r)[k]
                /\ new.created_at = Target(r).created_at
                /\ store' \ {new} = store \ {Target(r)}]_vars

NotFound(op) ==
    [op |-> op, outcome |-> "NotFoundException", status |-> 404, body |-> {}]

\* C6: get, update and delete of an id with no stored product (never created,
\* or deleted) each fail with NotFoundException (404) and write nothing.
C6_NotFoundWritesNothing ==
    [][\A r \in Sessions, id \in Ids :
        id \notin StoredIds =>
            /\ get(r, id) => response' = NotFound("get") /\ store' = store
            /\ \A body \in ProductUpdate :
                 update(r, id, body) =>
                    response' = NotFound("patch") /\ store' = store
                    /\ session'[r] = Idle
            /\ delete(r, id) =>
                    response' = NotFound("delete") /\ store' = store
                    /\ session'[r] = Idle]_vars

\* A delete was answered 404 while a product is stored.
C6_Witness ==
    /\ response = NotFound("delete")
    /\ store # {}

\* The ids given to a product so far and stored no longer.
Deleted == {i \in 1..(nextId - 1) : i \notin StoredIds}

\* C7: a delete removes exactly its product; a deleted id stays absent (no
\* later create is given it), and get, update and delete of it fail with
\* NotFoundException.
C7_DeleteIsFinal ==
    [][/\ \A r \in Sessions :
            delete_commit(r) =>
                /\ store' = store \ {p \in store : p.id = session[r].id}
                /\ session[r].id \notin StoredIds'
       /\ \A i \in Deleted : i \notin StoredIds'
       /\ \A r \in Sessions, i \in Deleted :
            /\ get(r, i) => response' = NotFound("get")
            /\ \A body \in ProductUpdate :
                 update(r, i, body) => response' = NotFound("patch")
            /\ delete(r, i) => response' = NotFound("delete")]_vars

\* Product 1 was deleted and product 2, created as well, is stored.
C7_Witness ==
    /\ StoredIds = {2}
    /\ 1 \in Deleted

\* sub occurs in s, ignoring case.
Contains(s, sub) ==
    \E i \in 0..(Len(s) - Len(sub)) :
        \A j \in 1..Len(sub) : lower(s[i + j]) = lower(sub[j])

\* C8, as stated: query never fails and never writes; it returns the stored
\* products that satisfy every supplied filter (name a case-insensitive
\* substring), all of them without a filter, none rather than an error when
\* nothing matches.
C8_QueryNeverFails ==
    [][\A r \in Sessions, f \in Filters :
        query(r, f.name, f.category) =>
            /\ response'.outcome = "ok" /\ response'.status = 200
            /\ store' = store
            /\ response'.body \subseteq
                 {p \in store : \A n \in f.name : Contains(p.name, n)}
            /\ f.category = None =>
                 response'.body =
                    {p \in store : \A n \in f.name : Contains(p.name, n)}]_vars

\* C9: every response carries the status the handler maps its one usecase
\* call's outcome to: create 201, get/query/update 200, delete 204 with an
\* empty body, NotFoundException 404, IntegrityError 400.  Step by step, as in
\* POST, GET, PATCH {quantity: 3}, DELETE, GET with nothing in between: a get
\* of a stored id answers 200 with the row, of an absent id 404; the refresh
\* after a create answers 201 and after an update 200 with the row; an update
\* of a row unchanged since it was loaded stores the body's values and leaves
\* the other fields; a delete answers 204, its product gone.
C9_StatusMapping ==
    [][/\ LET o == response' IN
            /\ o.outcome = "ok" =>
                o.status = CASE o.op = "post" -> 201
                             [] o.op \in {"get", "query", "patch"} -> 200
                             [] o.op = "delete" -> 204
            /\ o.op = "delete" => o.body = {}
            /\ o.outcome = "NotFoundException" =>
                o.op \in {"get", "patch", "delete"} /\ o.status = 404
            /\ o.outcome = "IntegrityError" =>
                o.op \in {"post", "patch"} /\ o.status = 400
       /\ \A r \in Sessions, id \in Ids :
            get(r, id) =>
                response' = IF id \in StoredIds
                            THEN [op |-> "get", outcome |-> "ok", status |-> 200,
                                  body |-> {Row(id)}]
                            ELSE NotFound("get")
       /\ \A r \in Sessions :
            refresh(r) /\ session[r].id \in StoredIds =>
                response' = [op |-> session[r].op, outcome |-> "ok",
                             status |-> IF session[r].op = "post" THEN 201 ELSE 200,
                             body |-> {Target(r)}]
       /\ \A r \in Sessions :
            Committed(r) /\ Target(r) = session[r].loaded =>
                \E new \in store' :
                    /\ new.id = session[r].id
                    /\ \A k \in DOMAIN session[r].body : new[k] = session[r].body[k]
                    /\ \A k \in Fields \ DOMAIN session[r].body :
                         new[k] = session[r].loaded[k]
       /\ \A r \in Sessions :
            delete_commit(r) =>
                /\ response' = [op |-> "delete", outcome |-> "ok", status |-> 204,
                                body |-> {}]
                /\ session[r].id \notin StoredIds']_vars

\* A delete was answered 204 and left the table empty.
C9_Witness ==
    /\ response.op = "delete" /\ response.status = 204
    /\ store = {} /\ nextId > 1

\* C10, as stated: of two updates of one product, each in its own session,
\* the one that commits last is rejected only for a duplicate name, and every
\* field both supplied then holds the value the last one supplied.
C10_LastWriterWins ==
    [][\A r \in Sessions, q \in Sessions :
        /\ q # r
        /\ session[q].pc = "committed" /\ session[q].op = "patch"
        /\ session[q].id = session[r].id
        /\ update_commit(r) /\ session[r].id \in StoredIds
        => \/ /\ response'.outcome = "IntegrityError"
              /\ "name" \in DOMAIN session[r].body
              /\ \E p \in store : p.id # session[r].id
                                  /\ p.name = session[r].body["name"]
           \/ /\ session'[r].pc = "committed"
              /\ \E new \in store' :
                    /\ new.id = session[r].id
                    /\ \A k \in DOMAIN session[r].body \cap DOMAIN session[q].body :
                         new[k] = session[r].body[k]]_vars

====
